---- MODULE Spec2Model ----
(***************************************************************************)
(* A model of dbt-core's structured event dispatch:                        *)
(*   core/dbt/events/base_types.py  BaseEvent and its level classes        *)
(*   core/dbt/events/eventmgr.py    LoggerConfig, _Logger, _TextLogger,    *)
(*                                  _JsonLogger, _create_logger,           *)
(*                                  EventManager                           *)
(* Text is a sequence of tokens (short strings).  A token stands for an    *)
(* indivisible piece of text: a scrubber replaces whole tokens, a newline  *)
(* is the token "\n".                                                      *)
(***************************************************************************)
EXTENDS Integers, Sequences, FiniteSets, TLC

VARIABLES
    loggers,        \* EventManager.loggers: the _Logger objects, in list order
    callbacks,      \* EventManager.callbacks: callback ids, in list order
    invocation_id,  \* EventManager.invocation_id
    registry,       \* logging.getLogger(name): name -> [level, file]
    streams,        \* text of every output stream (TextIO)
    files,          \* text of every rotating log file
    handles,        \* what every externally supplied logger was handed
    built,          \* the outcome of the last event construction
    now,            \* the clock read by datetime.utcnow()
    fires,          \* number of fire_event calls made so far
    last,           \* the last fire_event or flush call: its inputs and what it did
    pc,             \* per thread: position inside its fire_event call
    todo,           \* per thread: records still to fire
    job,            \* per thread: the fire_event call in progress
    clean,          \* a CleanTask.run call: its position, the disk, what it fired
    exc,            \* a RuntimeException object: its node and stack
    added,          \* the nodes the exception was given, oldest first
    frames          \* the Python call stack of a call into dbt.exceptions

\* The variables of the event manager and of its callers' threads.
mgrvars == <<loggers, callbacks, invocation_id, registry, streams, files, handles,
             built, now, fires, last, pc, todo, job>>

\* The variables of the clean task and of dbt.exceptions.
taskvars == <<clean, exc, added, frames>>

vars == <<mgrvars, taskvars>>

----------------------------------------------------------------------------
(* Bounds of the model *)

MaxLoggers == 2
MaxCallbacks == 2
MaxFires == 2
MaxClock == 2
TicksPerSecond == 2
NThreads == 2
NRecords == 2
MaxTargets == 2
MaxAdds == 3
RecursionLimit == 4

----------------------------------------------------------------------------
(* Small helpers on sequences *)

Range(s) == {s[i] : i \in 1..Len(s)}

RECURSIVE Rep(_, _)
Rep(tok, n) == IF n <= 0 THEN <<>> ELSE <<tok>> \o Rep(tok, n - 1)

Take(s, n) == SubSeq(s, 1, IF Len(s) < n THEN Len(s) ELSE n)

Contains(s, tok) == \E i \in 1..Len(s) : s[i] = tok

Count(s, tok) == Cardinality({i \in 1..Len(s) : s[i] = tok})

----------------------------------------------------------------------------
(* base_types.py *)

Levels == {"debug", "test", "info", "warn", "error"}

\* The level classes of base_types.py; "BaseEvent" is a kind that derives from
\* BaseEvent directly.
LevelClasses == {"DynamicLevel", "TestLevel", "DebugLevel", "InfoLevel",
                 "WarnLevel", "ErrorLevel"}

\* level_tag() of each class.  DynamicLevel does not override it and inherits
\* BaseEvent.level_tag.
level_tag(cls) ==
    CASE cls = "TestLevel" -> "test"
      [] cls = "DebugLevel" -> "debug"
      [] cls = "InfoLevel" -> "info"
      [] cls = "WarnLevel" -> "warn"
      [] cls = "ErrorLevel" -> "error"
      [] OTHER -> "debug"

\* message() of the concrete kind: the rendering of its payload fields.  The
\* catalogue of kinds is outside the modelled files; a rendering is given by
\* its result.
message(e) == e.payload

get_pid == 4242

\* What a caller passes to an event constructor.
\*   level = ""   : no explicit level (info.level unset)
\*   msg = <<>>   : no explicit info.msg
EventInput(name, cls, level, payload, msg, serializable) ==
    [name |-> name, cls |-> cls, level |-> level, payload |-> payload,
     msg |-> msg, serializable |-> serializable]

\* A level choice that always takes the class's level_tag().
post_init_level_tag_only(in) == level_tag(in.cls)

\* BaseEvent.__post_init__: the record, or the AssertionError of line 54.
post_init_level(in) == IF in.level = "" THEN level_tag(in.cls) ELSE in.level

\* The assert of line 54 when assertions are not checked.
post_init_assert_off(level) == TRUE

post_init_assert(level) == level \in {"info", "warn", "error", "debug", "test"}

\* A __post_init__ that stops after the message: lines 57-63 do not run.
post_init_no_envelope(in, inv, t, thread) ==
    LET level == post_init_level(in) IN
    IF ~post_init_assert(level)
    THEN [ok |-> FALSE, error |-> "AssertionError", input |-> in]
    ELSE [ok |-> TRUE, error |-> "", input |-> in,
          name |-> in.name, cls |-> in.cls, level |-> level,
          payload |-> in.payload,
          msg |-> IF in.msg = <<>> THEN message(in) ELSE in.msg,
          invocation_id |-> "", ts |-> 0, pid |-> 0,
          thread |-> <<>>, code |-> "",
          serializable |-> in.serializable]

post_init(in, inv, t, thread) ==
    LET level == post_init_level(in) IN
    IF ~post_init_assert(level)
    THEN [ok |-> FALSE, error |-> "AssertionError", input |-> in]
    ELSE [ok |-> TRUE, error |-> "", input |-> in,
          name |-> in.name, cls |-> in.cls, level |-> level,
          payload |-> in.payload,
          msg |-> IF in.msg = <<>> THEN message(in) ELSE in.msg,
          invocation_id |-> inv, ts |-> t, pid |-> get_pid,
          thread |-> thread, code |-> "code:" \o in.name,
          serializable |-> in.serializable]

log_level(e) == e.level

\* Kinds that carry the NoFile marker class.
NoFileKinds == {"CheckCleanPath"}

----------------------------------------------------------------------------
(* eventmgr.py: filters, scrubbers, levels *)

\* Filter callables.  NoFilter is the default; NoFileFilter is a caller's
\* filter that keeps NoFile events away from a sink.
Filters == {"NoFilter", "NoFileFilter"}

ApplyFilter(f, e) ==
    IF f = "NoFilter" THEN TRUE ELSE e.name \notin NoFileKinds

\* Scrubber callables.  "" is NoScrubber; any other value is the secret token
\* that the scrubber replaces by "***".
NoScrubber == ""

ApplyScrubber(s, text) ==
    IF s = NoScrubber THEN text
    ELSE [i \in 1..Len(text) |-> IF text[i] = s THEN "***" ELSE text[i]]

_log_level_map(level) ==
    CASE level = "debug" -> 10
      [] level = "test" -> 10
      [] level = "info" -> 20
      [] level = "warn" -> 30
      [] level = "error" -> 40

LineFormats == {"PlainText", "DebugText", "Json"}

\* LoggerConfig.  logger, output_stream and output_file_name are "" when None.
LoggerConfig(name, filter, scrubber, line_format, level, use_colors, output_stream, output_file_name, logger) ==
    [name |-> name, filter |-> filter, scrubber |-> scrubber,
     line_format |-> line_format, level |-> level, use_colors |-> use_colors,
     output_stream |-> output_stream, output_file_name |-> output_file_name,
     logger |-> logger]

\* _create_logger: the _Logger built from a config.  python_logger is
\* <<"ext", handle>> for a supplied logger, <<"named", name>> for the
\* logging.getLogger(name) object of a file sink, <<>> for None.
create_logger_object(config) ==
    [name |-> config.name, filter |-> config.filter,
     scrubber |-> config.scrubber, level |-> config.level,
     json |-> (config.line_format = "Json"),
     use_colors |-> (config.line_format # "Json" /\ config.use_colors),
     use_debug_format |-> (config.line_format = "DebugText"),
     python_logger |->
         IF config.logger # "" THEN <<"ext", config.logger>>
         ELSE IF config.output_stream # "" THEN <<>>
         ELSE <<"named", config.name>>,
     stream |->
         IF config.logger = "" /\ config.output_stream # ""
         THEN config.output_stream ELSE "",
     seq |-> 0]

\* The effect of _create_logger on the logging module's logger registry:
\* getLogger(name), setLevel, handlers.clear(), addHandler(RotatingFileHandler).
create_logger_registry(config, reg) ==
    IF config.logger # "" \/ config.output_stream # "" THEN reg
    ELSE [reg EXCEPT ![config.name] =
              [level |-> _log_level_map(config.level),
               file |-> config.output_file_name]]

----------------------------------------------------------------------------
(* eventmgr.py: line formats *)

Op(op, sink, text) == [op |-> op, sink |-> sink, text |-> text]

strftime_HMS(t) == "HMS=" \o ToString(t \div TicksPerSecond)

strftime_HMSf(t) ==
    "HMS=" \o ToString(t \div TicksPerSecond) \o "." \o ToString(t % TicksPerSecond)

str_datetime(t) == "UTC=" \o ToString(t)

get_color_tag(lg) == IF ~lg.use_colors THEN <<>> ELSE <<"RESET_ALL">>

ThreadNameWidth == 10

ljust(s, n) == s \o Rep(" ", n - Len(s))

get_thread_name(th) ==
    IF th = <<>> THEN <<>>
    ELSE <<" [">> \o ljust(Take(th, ThreadNameWidth), ThreadNameWidth) \o <<"]:">>

\* f"{level:<5}"
LevelWidth == 5

StrLen(level) == IF level \in {"debug", "error"} THEN 5 ELSE 4

level_padded(level) ==
    IF StrLen(level) >= LevelWidth THEN <<level>>
    ELSE <<level>> \o Rep(" ", LevelWidth - StrLen(level))

\* What a create_line call returns: the line, or the exception it raised,
\* and the calls it made on the way.
Line(text, calls) == [ok |-> TRUE, text |-> text, calls |-> calls]
Raised(calls) == [ok |-> FALSE, text |-> <<>>, calls |-> calls]

\* A create_info_line that forgets the scrubber.
create_info_line_raw(lg, i, e, th, t) ==
    Line(get_color_tag(lg) \o <<strftime_HMS(t), "  ">> \o message(e),
         <<Op("message", i, message(e))>>)

create_info_line(lg, i, e, th, t) ==
    LET ts == strftime_HMS(t)
        scrubbed_msg == ApplyScrubber(lg.scrubber, message(e))
    IN Line(get_color_tag(lg) \o <<ts, "  ">> \o scrubbed_msg,
            <<Op("message", i, message(e)), Op("scrubber", i, message(e))>>)

SeparatorLen == 30

\* A create_debug_line that scrubs the whole rendered line.
create_debug_line_whole(lg, i, e, th, t, inv) ==
    LET separator == Rep("=", SeparatorLen)
        banner == IF e.name = "MainReportVersion"
                  THEN <<"\n", "\n">> \o separator
                       \o <<" ", str_datetime(t), " | ", inv, " ">>
                       \o separator \o <<"\n">>
                  ELSE <<>>
        whole == banner \o get_color_tag(lg) \o <<strftime_HMSf(t), " [">>
                 \o level_padded(log_level(e)) \o <<"]">>
                 \o get_thread_name(th) \o <<" ">> \o message(e)
    IN Line(ApplyScrubber(lg.scrubber, whole),
            <<Op("message", i, message(e)), Op("scrubber", i, whole)>>)

\* A create_debug_line that prints the banner whatever the kind of the record.
create_debug_line_banner_always(lg, i, e, th, t, inv) ==
    LET separator == Rep("=", SeparatorLen)
        banner == <<"\n", "\n">> \o separator
                  \o <<" ", str_datetime(t), " | ", inv, " ">>
                  \o separator \o <<"\n">>
        ts == strftime_HMSf(t)
        scrubbed_msg == ApplyScrubber(lg.scrubber, message(e))
    IN Line(banner \o get_color_tag(lg) \o <<ts, " [">>
                \o level_padded(log_level(e)) \o <<"]">>
                \o get_thread_name(th) \o <<" ">> \o scrubbed_msg,
            <<Op("message", i, message(e)), Op("scrubber", i, message(e))>>)

\* A create_debug_line whose banner prints a newly generated id.
create_debug_line_new_id(lg, i, e, th, t, inv) ==
    LET separator == Rep("=", SeparatorLen)
        banner == IF e.name = "MainReportVersion"
                  THEN <<"\n", "\n">> \o separator
                       \o <<" ", str_datetime(t), " | ", "uuid-0", " ">>
                       \o separator \o <<"\n">>
                  ELSE <<>>
        ts == strftime_HMSf(t)
        scrubbed_msg == ApplyScrubber(lg.scrubber, message(e))
    IN Line(banner \o get_color_tag(lg) \o <<ts, " [">>
                \o level_padded(log_level(e)) \o <<"]">>
                \o get_thread_name(th) \o <<" ">> \o scrubbed_msg,
            <<Op("message", i, message(e)), Op("scrubber", i, message(e))>>)

create_debug_line(lg, i, e, th, t, inv) ==
    LET separator == Rep("=", SeparatorLen)
        banner == IF e.name = "MainReportVersion"
                  THEN <<"\n", "\n">> \o separator
                       \o <<" ", str_datetime(t), " | ", inv, " ">>
                       \o separator \o <<"\n">>
                  ELSE <<>>
        ts == strftime_HMSf(t)
        scrubbed_msg == ApplyScrubber(lg.scrubber, message(e))
    IN Line(banner \o get_color_tag(lg) \o <<ts, " [">>
                \o level_padded(log_level(e)) \o <<"]">>
                \o get_thread_name(th) \o <<" ">> \o scrubbed_msg,
            <<Op("message", i, message(e)), Op("scrubber", i, message(e))>>)

\* json.dumps of a string: quotes and newlines are escaped.
json_escape(text) ==
    [k \in 1..Len(text) |->
        CASE text[k] = "\"" -> "\\\""
          [] text[k] = "pa\"ss" -> "pa\\\"ss"
          [] text[k] = "\n" -> "\\n"
          [] OTHER -> text[k]]

\* One entry of a dict: its key, the tokens of its value, and whether the
\* value is a string (json.dumps puts it in quotes, escaped).
Field(key, value, str) == [key |-> key, value |-> value, str |-> str]

\* A to_dict that leaves out the fields holding their default value
\* (include_default_values=False).
to_dict_no_defaults(e) ==
    SelectSeq(<<Field("name", <<e.name>>, TRUE),
                Field("code", <<e.code>>, TRUE),
                Field("msg", e.msg, TRUE),
                Field("level", <<e.level>>, TRUE),
                Field("invocation_id", <<e.invocation_id>>, TRUE),
                Field("pid", <<ToString(e.pid)>>, FALSE),
                Field("thread", e.thread, TRUE),
                Field("ts", <<str_datetime(e.ts)>>, TRUE)>>,
              LAMBDA f : f.value # <<>>)

\* event.to_dict(casing=SNAKE, include_default_values=True): the "info" dict,
\* its fields in declaration order, every field present.
to_dict(e) ==
    <<Field("name", <<e.name>>, TRUE),
      Field("code", <<e.code>>, TRUE),
      Field("msg", e.msg, TRUE),
      Field("level", <<e.level>>, TRUE),
      Field("invocation_id", <<e.invocation_id>>, TRUE),
      Field("pid", <<ToString(e.pid)>>, FALSE),
      Field("thread", e.thread, TRUE),
      Field("ts", <<str_datetime(e.ts)>>, TRUE),
      Field("extra", <<>>, FALSE)>>

\* The keys of the "info" dict in the order sort_keys=True puts them.
KeyRank(key) ==
    CASE key = "code" -> 1
      [] key = "extra" -> 2
      [] key = "invocation_id" -> 3
      [] key = "level" -> 4
      [] key = "msg" -> 5
      [] key = "name" -> 6
      [] key = "pid" -> 7
      [] key = "thread" -> 8
      [] key = "ts" -> 9

sort_keys(fields) == SortSeq(fields, LAMBDA a, b : KeyRank(a.key) < KeyRank(b.key))

json_key(key) == "\"" \o key \o "\": "

json_value(f) ==
    IF f.str THEN <<"\"">> \o json_escape(f.value) \o <<"\"">>
    ELSE IF f.value = <<>> THEN <<"{}">>
    ELSE f.value

\* json.dumps of a dict whose fields are in their final order.
RECURSIVE json_object(_)
json_object(fields) ==
    IF fields = <<>> THEN <<>>
    ELSE <<json_key(Head(fields).key)>> \o json_value(Head(fields))
         \o (IF Len(fields) > 1 THEN <<", ">> ELSE <<>>)
         \o json_object(Tail(fields))

\* json.dumps(event.to_dict(SNAKE, include_default_values=True), sort_keys=True)
json_dumps(e) ==
    <<"{", json_key("info"), "{">> \o json_object(sort_keys(to_dict(e)))
    \o <<"}", ", ", json_key("payload")>>
    \o json_value(Field("payload", e.payload, TRUE)) \o <<"}">>

\* A create_line that swallows the AttributeError of to_dict and goes on with
\* the empty dict.
json_create_line_swallow(lg, i, e) ==
    LET raw_log_line == IF e.serializable THEN json_dumps(e) ELSE <<"{}">> IN
    Line(ApplyScrubber(lg.scrubber, raw_log_line),
         <<Op("to_dict", i, <<>>), Op("dumps", i, raw_log_line),
           Op("scrubber", i, raw_log_line)>>)

json_create_line(lg, i, e) ==
    IF ~e.serializable
    THEN Raised(<<Op("to_dict", i, <<>>)>>)
    ELSE LET raw_log_line == json_dumps(e) IN
         Line(ApplyScrubber(lg.scrubber, raw_log_line),
              <<Op("to_dict", i, <<>>), Op("dumps", i, raw_log_line),
                Op("scrubber", i, raw_log_line)>>)

create_line(lg, i, e, th, t, inv) ==
    IF lg.json THEN json_create_line(lg, i, e)
    ELSE IF lg.use_debug_format THEN create_debug_line(lg, i, e, th, t, inv)
    ELSE create_info_line(lg, i, e, th, t)

----------------------------------------------------------------------------
(* eventmgr.py: _Logger.write_line and the destinations *)

\* A stream that has been closed by its owner: write() raises ValueError.
ClosedStreams == {"closed"}

\* The destinations and the trace of one fire_event call while it runs.
Dest(st, fl, hd, ops, raised) ==
    [streams |-> st, files |-> fl, handles |-> hd, ops |-> ops, raised |-> raised]

\* TextIO.write(text)
stream_write(s, text, i, D) ==
    IF s \in ClosedStreams
    THEN [D EXCEPT !.ops = Append(@, Op("write_error", i, text)),
                   !.raised = TRUE]
    ELSE [D EXCEPT !.streams[s] = @ \o text,
                   !.ops = Append(@, Op("write", i, text))]

\* logging.Logger.log(level, line).  A supplied logger is handed the call; a
\* logger of the registry emits through its RotatingFileHandler, with the
\* "%(message)s" formatter and the "\n" terminator, when the level is enabled.
python_logger_log(pl, level, line, i, reg, D) ==
    IF pl[1] = "ext"
    THEN [D EXCEPT !.handles[pl[2]] = Append(@, [level |-> level, line |-> line]),
                   !.ops = Append(@, Op("log", i, line))]
    ELSE IF level >= reg[pl[2]].level
    THEN [D EXCEPT !.files[reg[pl[2]].file] = @ \o line \o <<"\n">>,
                   !.ops = Append(@, Op("emit", i, line \o <<"\n">>))]
    ELSE D

\* The calls write_line makes on its destination once the line is created:
\* none, one python_logger.log(level, line), or one stream.write(line + "\n").
DestCall(kind, target, level, text) ==
    [kind |-> kind, target |-> target, level |-> level, text |-> text]

\* A write_line that writes the line and its newline in two stream.write calls.
write_line_calls_split(lg, e, line) ==
    LET python_level == _log_level_map(log_level(e)) IN
    IF lg.python_logger # <<>>
    THEN <<DestCall("log", lg.python_logger, python_level, line)>>
    ELSE IF lg.stream # "" /\ _log_level_map(lg.level) <= python_level
    THEN <<DestCall("write", <<lg.stream>>, python_level, line),
           DestCall("write", <<lg.stream>>, python_level, <<"\n">>)>>
    ELSE <<>>

\* A write_line that hands every line to the python logger at INFO.
write_line_calls_info(lg, e, line) ==
    LET python_level == _log_level_map(log_level(e)) IN
    IF lg.python_logger # <<>>
    THEN <<DestCall("log", lg.python_logger, _log_level_map("info"), line)>>
    ELSE IF lg.stream # "" /\ _log_level_map(lg.level) <= python_level
    THEN <<DestCall("write", <<lg.stream>>, python_level, line \o <<"\n">>)>>
    ELSE <<>>

write_line_calls(lg, e, line) ==
    LET python_level == _log_level_map(log_level(e)) IN
    IF lg.python_logger # <<>>
    THEN <<DestCall("log", lg.python_logger, python_level, line)>>
    ELSE IF lg.stream # "" /\ _log_level_map(lg.level) <= python_level
    THEN <<DestCall("write", <<lg.stream>>, python_level, line \o <<"\n">>)>>
    ELSE <<>>

apply_call(c, i, reg, D) ==
    IF c.kind = "log" THEN python_logger_log(c.target, c.level, c.text, i, reg, D)
    ELSE stream_write(c.target[1], c.text, i, D)

RECURSIVE apply_calls(_, _, _, _)
apply_calls(cs, i, reg, D) ==
    IF cs = <<>> \/ D.raised THEN D
    ELSE apply_calls(Tail(cs), i, reg, apply_call(Head(cs), i, reg, D))

write_line(lg, i, e, th, t, inv, reg, D) ==
    LET line == create_line(lg, i, e, th, t, inv)
        D1 == [D EXCEPT !.ops = @ \o line.calls]
    IN  IF ~line.ok THEN [D1 EXCEPT !.raised = TRUE]
        ELSE apply_calls(write_line_calls(lg, e, line.text), i, reg, D1)

----------------------------------------------------------------------------
(* eventmgr.py: EventManager *)

\* A fire_event loop that calls write_line without consulting the filter.
RECURSIVE run_loggers_unfiltered(_, _, _, _, _, _, _, _)
run_loggers_unfiltered(i, L, e, th, t, inv, reg, D) ==
    IF i > Len(L) THEN D
    ELSE LET D1 == write_line(L[i], i, e, th, t, inv, reg, D) IN
         IF D1.raised THEN D1
         ELSE run_loggers_unfiltered(i + 1, L, e, th, t, inv, reg, D1)

\* The first loop of fire_event, from logger i on.  An exception raised by a
\* write_line call leaves the loop and fire_event.
RECURSIVE run_loggers(_, _, _, _, _, _, _, _)
run_loggers(i, L, e, th, t, inv, reg, D) ==
    IF i > Len(L) THEN D
    ELSE IF ~ApplyFilter(L[i].filter, e)
    THEN run_loggers(i + 1, L, e, th, t, inv, reg, D)
    ELSE LET D1 == write_line(L[i], i, e, th, t, inv, reg, D) IN
         IF D1.raised THEN D1
         ELSE run_loggers(i + 1, L, e, th, t, inv, reg, D1)

\* A second loop that leaves the callbacks for later instead of calling them.
run_callbacks_deferred(j, cbs, e, D) == D

\* The second loop of fire_event.
RECURSIVE run_callbacks(_, _, _, _)
run_callbacks(j, cbs, e, D) ==
    IF j > Len(cbs) THEN D
    ELSE run_callbacks(j + 1, cbs, e,
                       [D EXCEPT !.ops = Append(@, Op("callback", 0, <<cbs[j]>>))])

fire_event(L, cbs, e, th, t, inv, reg, D) ==
    LET D1 == run_loggers(1, L, e, th, t, inv, reg, D) IN
    IF D1.raised THEN D1 ELSE run_callbacks(1, cbs, e, D1)

\* add_logger: the new logger goes to the end of the list.  seq is the number
\* of the add_logger call that registered it (kept for the verification; the
\* program has no such field).
Registered(config, n) ==
    [create_logger_object(config) EXCEPT !.seq = n]

\* An add_logger that puts the new logger at the front of the list.
add_logger_list_front(L, config) == <<Registered(config, Len(L) + 1)>> \o L

add_logger_list(L, config) == Append(L, Registered(config, Len(L) + 1))

\* _Logger.flush of logger lg, the i-th of the list: handler.flush() of every
\* handler of its python logger, or stream.flush(); TextIO.flush() of a closed
\* stream raises ValueError.
logger_flush(lg, i) ==
    IF lg.python_logger # <<>> THEN Op("flush_handlers", i, <<>>)
    ELSE IF lg.stream \in ClosedStreams THEN Op("flush_error", i, <<>>)
    ELSE Op("flush_stream", i, <<>>)

\* EventManager.flush from logger i on: an exception leaves the loop.
RECURSIVE flush_from(_, _)
flush_from(i, L) ==
    IF i > Len(L) THEN <<>>
    ELSE LET o == logger_flush(L[i], i) IN
         IF o.op = "flush_error" THEN <<o>>
         ELSE <<o>> \o flush_from(i + 1, L)

flush_ops(L) == flush_from(1, L)

flush_raised(ops) == ops # <<>> /\ ops[Len(ops)].op = "flush_error"

----------------------------------------------------------------------------
(* The manager as a state machine *)

InvocationIds == {"uuid-1", "uuid-2"}
StreamIds == {"out", "err", "closed"}
FileNames == {"dbt.log", "other.log"}
HandleIds == {"h1"}
LoggerNames == {"stdout", "stderr", "file_log", "aux"}
MainThread == <<"M", "a", "i", "n">>

NoEvent == [ok |-> FALSE, error |-> "none", input |-> <<>>]
NoFire == [call |-> "none"]

\* No clean task is running and no call into dbt.exceptions is under way.
NoTasks ==
    /\ clean = <<>>
    /\ exc = <<>>
    /\ added = <<>>
    /\ frames = <<>>

\* The sink configurations a caller registers.  The stream of stderr is one
\* its owner has closed.
SinkConfigs ==
    { LoggerConfig("stdout", "NoFilter", "SECRET", "PlainText", "info", FALSE,
                   "out", "", ""),
      LoggerConfig("stderr", "NoFilter", NoScrubber, "Json", "error", FALSE,
                   "closed", "", ""),
      LoggerConfig("file_log", "NoFileFilter", "SECRET", "DebugText", "debug", FALSE,
                   "", "dbt.log", ""),
      LoggerConfig("aux", "NoFilter", NoScrubber, "PlainText", "error", FALSE,
                   "", "", "h1") }

\* The events a caller constructs.
EventInputs ==
    { EventInput("MainReportVersion", "InfoLevel", "", <<"Running with dbt, token=", "SECRET">>, <<>>, TRUE),
      EventInput("AdapterEvent", "DynamicLevel", "", <<"adapter">>, <<>>, FALSE),
      EventInput("CheckCleanPath", "InfoLevel", "", <<"Checking ", "target">>, <<>>, TRUE) }

Init ==
    /\ loggers = <<>>
    /\ callbacks = <<>>
    /\ invocation_id = "uuid-1"
    /\ registry = [n \in LoggerNames |-> [level |-> 0, file |-> ""]]
    /\ streams = [s \in StreamIds |-> <<>>]
    /\ files = [f \in FileNames |-> <<>>]
    /\ handles = [h \in HandleIds |-> <<>>]
    /\ built = NoEvent
    /\ now = 1
    /\ fires = 0
    /\ last = NoFire
    /\ pc = <<>>
    /\ todo = <<>>
    /\ job = <<>>
    /\ NoTasks

\* get_invocation_id() of dbt.events.functions: the invocation id of the
\* process's event manager.
get_invocation_id == invocation_id

\* An event constructor call, BaseEvent.__post_init__, on the main thread.
construct(in) ==
    /\ built' = post_init(in, get_invocation_id, now, MainThread)
    /\ last' = [call |-> "construct"]
    /\ UNCHANGED <<loggers, callbacks, invocation_id, registry, streams, files,
                   handles, now, fires, pc, todo, job, taskvars>>

\* EventManager.add_logger(config)
add_logger(config) ==
    /\ Len(loggers) < MaxLoggers
    /\ loggers' = add_logger_list(loggers, config)
    /\ registry' = create_logger_registry(config, registry)
    /\ UNCHANGED <<callbacks, invocation_id, streams, files, handles, built,
                   now, fires, last, pc, todo, job, taskvars>>

\* A caller appends to EventManager.callbacks; the k-th callback registered
\* is named cb<k>.
add_callback ==
    /\ Len(callbacks) < MaxCallbacks
    /\ callbacks' = Append(callbacks, "cb" \o ToString(Len(callbacks) + 1))
    /\ UNCHANGED <<loggers, invocation_id, registry, streams, files, handles,
                   built, now, fires, last, pc, todo, job, taskvars>>

\* EventManager.fire_event(e) of the record built last, called on thread th.
fire(th) ==
    /\ built.ok
    /\ fires < MaxFires
    /\ LET pre == Dest(streams, files, handles, <<>>, FALSE)
           D == fire_event(loggers, callbacks, built, th, now,
                           invocation_id, registry, pre)
       IN /\ streams' = D.streams
          /\ files' = D.files
          /\ handles' = D.handles
          /\ last' = [call |-> "fire", e |-> built, th |-> th, t |-> now,
                      inv |-> invocation_id, L |-> loggers,
                      cbs |-> callbacks, reg |-> registry, pre |-> pre,
                      ops |-> D.ops, raised |-> D.raised]
    /\ fires' = fires + 1
    /\ UNCHANGED <<loggers, callbacks, invocation_id, registry, built, now,
                   pc, todo, job, taskvars>>

\* EventManager.flush()
flush ==
    /\ last' = [call |-> "flush", L |-> loggers, ops |-> flush_ops(loggers),
                raised |-> flush_raised(flush_ops(loggers))]
    /\ UNCHANGED <<loggers, callbacks, invocation_id, registry, streams, files,
                   handles, built, now, fires, pc, todo, job, taskvars>>

Next ==
    \/ \E in \in EventInputs : construct(in)
    \/ \E config \in SinkConfigs : add_logger(config)
    \/ add_callback
    \/ fire(MainThread)
    \/ flush

Spec == Init /\ [][Next]_vars

----------------------------------------------------------------------------
(* Properties of fire_event, stated on the last call *)

Fired == last.call = "fire"

\* The severities as the specification lists them.
Severity(level) ==
    CASE level \in {"debug", "test"} -> 10
      [] level = "info" -> 20
      [] level = "warn" -> 30
      [] level = "error" -> 40

DeliveryOps == {"write", "emit", "log"}

\* Sink i handed a line to its destination during the call.
Delivered(ops, i) ==
    \E k \in 1..Len(ops) : ops[k].sink = i /\ ops[k].op \in DeliveryOps

SinkOps(ops, i) == {k \in 1..Len(ops) : ops[k].sink = i}

IsCallbackOp(o) == o.op = "callback"

IsSinkOp(o) == o.sink > 0

\* The write of logger lg for record e cannot succeed.
SinkFails(lg, e) == (lg.json /\ ~e.serializable) \/ lg.stream \in ClosedStreams

Accepts(lg, e) ==
    ApplyFilter(lg.filter, e) /\ Severity(e.level) >= Severity(lg.level)

RemoveAt(s, i) == SubSeq(s, 1, i - 1) \o SubSeq(s, i + 1, Len(s))

\* The trace of a call on a list without its i-th logger, renumbered to the
\* positions of the full list.
Renumber(ops, i) ==
    [k \in 1..Len(ops) |->
        IF ops[k].sink >= i THEN [ops[k] EXCEPT !.sink = @ + 1] ELSE ops[k]]

\* C1 (as claimed): whatever the destination, a record whose filter accepts it
\* is delivered to a sink iff severity(level) >= severity(sink's minimum level).
C1_LevelDecidesDelivery ==
    (Fired /\ ~last.raised) =>
        \A i \in 1..Len(last.L) :
            ApplyFilter(last.L[i].filter, last.e) =>
                (Delivered(last.ops, i)
                    <=> Severity(last.e.level) >= Severity(last.L[i].level))

\* C2 (as claimed): when one sink's write fails, every other sink whose filter
\* and level accept the record still receives it.
C2_SinkIsolation ==
    Fired =>
        \A j \in 1..Len(last.L) :
            (Accepts(last.L[j], last.e) /\ ~SinkFails(last.L[j], last.e))
                => Delivered(last.ops, j)

\* C6: a sink whose filter rejects the record does nothing (no rendering, no
\* scrubbing, no serialization, no write), and the call does to every
\* destination, and through every other sink, exactly what it would do if the
\* rejecting sink were not registered.
C6_RejectedSinkIsInert ==
    Fired =>
        \A i \in 1..Len(last.L) :
            ~ApplyFilter(last.L[i].filter, last.e) =>
                LET W == fire_event(RemoveAt(last.L, i), last.cbs, last.e, last.th,
                                    last.t, last.inv, last.reg, last.pre)
                IN /\ SinkOps(last.ops, i) = {}
                   /\ Renumber(W.ops, i) = last.ops
                   /\ W.streams = streams
                   /\ W.files = files
                   /\ W.handles = handles
                   /\ W.raised = last.raised

C6_Witness ==
    /\ Fired
    /\ \E i, j \in 1..Len(last.L) :
          /\ ~ApplyFilter(last.L[i].filter, last.e)
          /\ i < j
          /\ Delivered(last.ops, j)

\* C7 (as claimed): in every fire, also one in which a sink's write fails,
\* each registered callback is invoked exactly once, in registration order,
\* after every sink has been attempted.
C7_CallbacksAfterSinks ==
    Fired =>
        LET cbops == SelectSeq(last.ops, IsCallbackOp) IN
        /\ [k \in 1..Len(cbops) |-> cbops[k].text[1]] = last.cbs
        /\ \A k1, k2 \in 1..Len(last.ops) :
              (IsCallbackOp(last.ops[k1]) /\ IsSinkOp(last.ops[k2])) => k2 < k1

\* C8: the loggers list is in registration order, and within one fire the
\* sinks act in that order: everything a sink registered earlier does for the
\* record comes before anything a sink registered later does.
C8_RegistrationOrder ==
    /\ \A i \in 1..Len(loggers) : loggers[i].seq = i
    /\ Fired =>
          \A k1, k2 \in 1..Len(last.ops) :
              (k1 < k2 /\ IsSinkOp(last.ops[k1]) /\ IsSinkOp(last.ops[k2]))
                  => last.L[last.ops[k1].sink].seq <= last.L[last.ops[k2].sink].seq

C8_Witness ==
    /\ Fired
    /\ \E k1, k2 \in 1..Len(last.ops) :
          /\ k1 < k2
          /\ last.ops[k1].op \in DeliveryOps
          /\ last.ops[k2].op \in DeliveryOps
          /\ last.ops[k1].sink # last.ops[k2].sink

\* The envelope fields of record e are all set.
Populated(e) ==
    /\ e.invocation_id # ""
    /\ e.pid # 0
    /\ e.thread # <<>>
    /\ e.ts # 0
    /\ e.code # ""

\* C13: every record that exists, and every record a fire hands to the sinks,
\* has invocation_id, pid, thread, ts and code set; after a fire, whatever the
\* number of sinks and of earlier fires, the record is the record that was
\* fired, envelope included.
C13_EnvelopePopulated ==
    /\ built.ok => Populated(built)
    /\ Fired =>
          /\ Populated(last.e)
          /\ built = last.e
          /\ last.e.invocation_id = last.inv
          /\ last.e.pid = get_pid
          /\ last.e.thread = MainThread

C13_Witness ==
    /\ Fired
    /\ fires = MaxFires
    /\ Len(last.L) >= 2
    /\ \A i \in 1..Len(last.L) : Delivered(last.ops, i)
    /\ Populated(built)

\* The deliveries of the last fire in which a DebugText sink printed the
\* run-start banner.
BannerIndexes ==
    {k \in 1..Len(last.ops) :
        /\ last.ops[k].op \in DeliveryOps
        /\ last.L[last.ops[k].sink].use_debug_format
        /\ last.e.name = "MainReportVersion"}

C14_IdCarried ==
    /\ built.ok => built.invocation_id = invocation_id
    /\ Fired =>
          /\ last.e.invocation_id = invocation_id
          /\ \A k \in BannerIndexes :
                /\ Contains(last.ops[k].text, invocation_id)
                /\ \A id \in InvocationIds \cup {"uuid-0"} :
                      Contains(last.ops[k].text, id) => id = invocation_id

\* C14: no step (add_logger, callback registration, construction, fire,
\* flush) changes the manager's invocation id; every record built and every
\* record fired carries it, and so does every banner a DebugText sink prints.
C14_OneInvocationId ==
    /\ [][invocation_id' = invocation_id]_vars
    /\ []C14_IdCarried

C14_Witness ==
    /\ Fired
    /\ fires = MaxFires
    /\ BannerIndexes # {}
    /\ Contains(files["dbt.log"], invocation_id)

\* Logger lg writes through a RotatingFileHandler.
IsFileSink(lg) == lg.python_logger # <<>> /\ lg.python_logger[1] = "named"

\* The deliveries of the last fire that went to file f.
FileDeliveries(f) ==
    {k \in 1..Len(last.ops) :
        /\ last.ops[k].op = "emit"
        /\ last.reg[last.L[last.ops[k].sink].name].file = f}

\* C15 (as claimed): no two registered sinks deliver through the same
\* rotating file handler, and a fire puts the record at most once per sink,
\* hence at most once, into a file that one sink owns.
C15_SinkOwnsItsFile ==
    /\ \A i, j \in 1..Len(loggers) :
          (i # j /\ IsFileSink(loggers[i]) /\ IsFileSink(loggers[j]))
              => loggers[i].python_logger # loggers[j].python_logger
    /\ Fired => \A f \in FileNames : Cardinality(FileDeliveries(f)) <= 1

\* A step leaves the logger list alone or appends one logger to it.
AppendsAtMostOne ==
    \/ loggers' = loggers
    \/ \E config \in SinkConfigs :
          loggers' = Append(loggers, Registered(config, Len(loggers) + 1))

C16_ListAppendOnly ==
    [][/\ AppendsAtMostOne
       /\ (fires' # fires \/ last' # last) => loggers' = loggers]_vars

\* C16 (as claimed): every step keeps the logger list or appends one logger at
\* its end, a fire or a flush keeps it, and in every fire each sink of the
\* list at that moment receives the record iff its filter and level accept it.
C16_AppendOnly ==
    /\ C16_ListAppendOnly
    /\ [](Fired => \A i \in 1..Len(last.L) :
                      Delivered(last.ops, i) <=> Accepts(last.L[i], last.e))

Flushed == last.call = "flush"

\* C17 (as claimed): a flush, at any point and for every kind of destination,
\* does not fail, flushes every registered sink exactly once in registration
\* order, and changes no destination.
C17_FlushAlwaysSafe ==
    /\ [](Flushed =>
            /\ ~last.raised
            /\ [k \in 1..Len(last.ops) |-> last.ops[k].sink]
                   = [k \in 1..Len(last.L) |-> k])
    /\ [][Flushed' => UNCHANGED <<streams, files, handles>>]_vars

C19_AllDoneAtReturn ==
    (Fired /\ ~last.raised) =>
        LET cbops == SelectSeq(last.ops, IsCallbackOp) IN
        /\ \A i \in 1..Len(last.L) :
              Accepts(last.L[i], last.e) => Delivered(last.ops, i)
        /\ [k \in 1..Len(cbops) |-> cbops[k].text[1]] = last.cbs

\* C19: when a fire has returned normally, every sink that accepts the record
\* has handed the line to its destination and every callback has run, within
\* the call; no step other than a fire changes a destination.
C19_Synchronous ==
    /\ []C19_AllDoneAtReturn
    /\ [][fires' = fires => UNCHANGED <<streams, files, handles>>]_vars

C19_Witness ==
    /\ Fired
    /\ ~last.raised
    /\ Len(last.cbs) = MaxCallbacks
    /\ Len(last.L) >= 2
    /\ \A i \in 1..Len(last.L) :
          Accepts(last.L[i], last.e) /\ ~IsFileSink(last.L[i])

----------------------------------------------------------------------------
(* Event construction, with a manager that has its sinks registered *)

ConstructInputs ==
    { EventInput("AdapterEvent", cls, level, <<"adapter">>, <<>>, TRUE) :
        cls \in LevelClasses,
        level \in Levels \cup {"", "trace", "WARN"} }

EmptyRegistry == [n \in LoggerNames |-> [level |-> 0, file |-> ""]]

InitManager(L) ==
    /\ loggers = L
    /\ callbacks = <<>>
    /\ streams = [s \in StreamIds |-> <<>>]
    /\ files = [f \in FileNames |-> <<>>]
    /\ handles = [h \in HandleIds |-> <<>>]
    /\ fires = 0
    /\ last = NoFire

NoThreads ==
    /\ pc = <<>>
    /\ todo = <<>>
    /\ job = <<>>

InitConstruct ==
    /\ NoThreads
    /\ NoTasks
    /\ InitManager(add_logger_list(
           add_logger_list(<<>>,
               LoggerConfig("aux", "NoFilter", NoScrubber, "PlainText", "debug",
                            FALSE, "", "", "h1")),
           LoggerConfig("stdout", "NoFilter", NoScrubber, "DebugText", "info",
                        FALSE, "out", "", "")))
    /\ invocation_id = "uuid-1"
    /\ registry = EmptyRegistry
    /\ built = NoEvent
    /\ now = 1

NextConstruct ==
    \/ \E in \in ConstructInputs : construct(in)
    \/ fire(MainThread)

SpecConstruct == InitConstruct /\ [][NextConstruct]_vars

\* C9 (as claimed): a dynamic-level kind constructed without an explicit level
\* fails and yields no record; constructed with level "warn" it yields a
\* record of level "warn".
C9_DynamicLevelRequired ==
    (built.error # "none" /\ built.input.cls = "DynamicLevel") =>
        /\ built.input.level = "" => ~built.ok
        /\ built.input.level = "warn" => (built.ok /\ built.level = "warn")

\* C10: a construction with a level outside the five recognized ones fails
\* with the assertion error and yields no record; every record that exists,
\* every record fired and every record handed to a destination has one of
\* the five levels.
C10_InvalidLevelRejected ==
    /\ built.error # "none" =>
          /\ built.input.level \notin (Levels \cup {""}) =>
                (~built.ok /\ built.error = "AssertionError")
          /\ built.ok => built.level \in Levels
    /\ Fired => last.e.level \in Levels
    /\ \A h \in HandleIds : \A k \in 1..Len(handles[h]) :
          handles[h][k].level \in {Severity(l) : l \in Levels}

C10_Witness ==
    /\ built.error = "AssertionError"
    /\ built.input.level = "trace"
    /\ fires > 0

\* The level the specification binds to each static-level variant.
StaticLevels ==
    [TestLevel |-> "test", DebugLevel |-> "debug", InfoLevel |-> "info",
     WarnLevel |-> "warn", ErrorLevel |-> "error"]

\* C11: a record of a static-level variant constructed without an explicit
\* level has the level bound to its variant; constructed with an explicit
\* recognized level it has that explicit level; a fire hands the sinks the
\* record with that level.
C11_StaticLevelDefault ==
    /\ (built.error # "none" /\ built.input.cls \in DOMAIN StaticLevels) =>
          /\ built.input.level = "" =>
                (built.ok /\ built.level = StaticLevels[built.input.cls])
          /\ built.input.level \in Levels =>
                (built.ok /\ built.level = built.input.level)
    /\ (Fired /\ last.e.input.cls \in DOMAIN StaticLevels) =>
          /\ handles["h1"] # <<>>
          /\ handles["h1"][Len(handles["h1"])].level =
                 Severity(IF last.e.input.level = ""
                          THEN StaticLevels[last.e.input.cls]
                          ELSE last.e.input.level)

C11_Witness ==
    /\ Fired
    /\ last.e.input.cls = "ErrorLevel"
    /\ last.e.input.level = "info"
    /\ last.e.level = "info"
    /\ handles["h1"][Len(handles["h1"])].level = 20

----------------------------------------------------------------------------
(* write_line as a function of the sink, the record, the thread and the time *)

ThreadNames ==
    { <<>>, MainThread, <<"T", "h", "r", "e", "a", "d", "-", "1", "2", "3", "4">> }

\* "pa\"ss" is a secret that holds a character json.dumps escapes.
Scrubbers == {NoScrubber, "SECRET", "warn", "pa\"ss"}

\* <<output_stream, output_file_name, logger>>
Destinations ==
    { <<"out", "", "">>, <<"closed", "", "">>, <<"", "dbt.log", "">>, <<"", "", "h1">> }

LineConfigs ==
    { LoggerConfig("file_log", "NoFilter", s, f, lv, c, d[1], d[2], d[3]) :
        s \in Scrubbers, f \in LineFormats, lv \in {"debug", "error"},
        c \in BOOLEAN, d \in Destinations }

LineInputs ==
    { EventInput(name, cls, "", payload, msg, ser) :
        name \in {"Note", "MainReportVersion"},
        cls \in {"DebugLevel", "WarnLevel"},
        payload \in { <<"token=", "SECRET", "123">>, <<"say ", "\"", "pa\"ss", "warn", "\n">> },
        msg \in { <<>>, <<"custom ", "SECRET">> },
        ser \in BOOLEAN }

InitLine ==
    \E config \in LineConfigs, in \in LineInputs, t \in 0..MaxClock,
       inv \in InvocationIds :
        /\ InitManager(add_logger_list(<<>>, config))
        /\ NoThreads
        /\ NoTasks
        /\ invocation_id = inv
        /\ registry = create_logger_registry(config, EmptyRegistry)
        /\ built = post_init(in, inv, 0, MainThread)
        /\ now = t

NextLine == \E th \in ThreadNames : last.call = "none" /\ fire(th)

SpecLine == InitLine /\ [][NextLine]_vars

\* The line an operation handed to its destination, without the "\n" that
\* stream.write and the file handler add.
LineOf(o) == IF o.op = "log" THEN o.text ELSE SubSeq(o.text, 1, Len(o.text) - 1)

DeliveryIndexes == {k \in 1..Len(last.ops) : last.ops[k].op \in DeliveryOps}

\* The line the sink of operation o would create with the pass-through scrubber.
Unscrubbed(o) ==
    create_line([last.L[o.sink] EXCEPT !.scrubber = NoScrubber], o.sink, last.e,
                last.th, last.t, last.inv).text

HasSubSeq(s, p) ==
    \E k \in 1..(Len(s) - Len(p) + 1) : SubSeq(s, k, k + Len(p) - 1) = p

Suffix(s, n) == SubSeq(s, Len(s) - n + 1, Len(s))

\* C4 (as claimed): the delivered text is the scrubber applied to the whole
\* formatted line, in the text formats as in the JSON format.
C4_ScrubberOnWholeLine ==
    Fired =>
        \A k \in DeliveryIndexes :
            LET o == last.ops[k] IN
            LineOf(o) = ApplyScrubber(last.L[o.sink].scrubber, Unscrubbed(o))

\* C4 (amended): in the JSON format the delivered text is the scrubber applied
\* to the whole serialized string; in the text formats it is the unscrubbed
\* prefix (banner, colour tag, timestamp, level, thread tag) followed by the
\* scrubber applied to the message alone.
C4_ScrubberOnMessageOrJson ==
    Fired =>
        \A k \in DeliveryIndexes :
            LET o == last.ops[k]
                lg == last.L[o.sink]
                raw == Unscrubbed(o)
                m == message(last.e)
            IN IF lg.json
               THEN LineOf(o) = ApplyScrubber(lg.scrubber, raw)
               ELSE LineOf(o) = SubSeq(raw, 1, Len(raw) - Len(m))
                                    \o ApplyScrubber(lg.scrubber, m)

C4_Witness ==
    /\ Fired
    /\ \E k \in DeliveryIndexes :
          LET lg == last.L[last.ops[k].sink] IN
          /\ lg.use_debug_format
          /\ lg.scrubber = "warn"
          /\ last.e.level = "warn"
          /\ Contains(message(last.e), "warn")
          /\ LineOf(last.ops[k]) # Unscrubbed(last.ops[k])

C12_MessageRenderedOnce ==
    Fired =>
        /\ \A k \in 1..Len(last.ops) : last.ops[k].op # "message"
        /\ \A k \in DeliveryIndexes :
              LET o == last.ops[k]
                  raw == Unscrubbed(o)
              IN ~last.L[o.sink].json =>
                    /\ Len(raw) >= Len(last.e.msg)
                    /\ Suffix(raw, Len(last.e.msg)) = last.e.msg

\* C18: when a JSON sink accepts a record that it cannot serialize, the fire
\* raises, that sink hands nothing to its destination, and no destination
\* holds anything it did not hold before the fire.
C18_SerializationFailureSignalled ==
    Fired =>
        \A i \in 1..Len(last.L) :
            (last.L[i].json /\ Accepts(last.L[i], last.e) /\ ~last.e.serializable) =>
                /\ last.raised
                /\ ~Delivered(last.ops, i)
                /\ \A k \in 1..Len(last.ops) :
                      last.ops[k].sink = i => last.ops[k].op = "to_dict"
                /\ streams = last.pre.streams
                /\ files = last.pre.files
                /\ handles = last.pre.handles

C18_Witness ==
    /\ Fired
    /\ last.raised
    /\ last.L[1].json
    /\ last.L[1].stream = "out"
    /\ Accepts(last.L[1], last.e)
    /\ ~last.e.serializable
    /\ streams["out"] = <<>>

\* b is a banner block with separators of n '=': two runs of n '=', no other
\* '=', and between the runs the timestamp t and then the invocation id inv.
IsBanner(b, n, t, inv) ==
    /\ Count(b, "=") = 2 * n
    /\ \E p, q \in 1..Len(b) :
          /\ p + n <= q
          /\ q + n - 1 <= Len(b)
          /\ SubSeq(b, p, p + n - 1) = Rep("=", n)
          /\ SubSeq(b, q, q + n - 1) = Rep("=", n)
          /\ \E i, j \in (p + n)..(q - 1) :
                i < j /\ b[i] = str_datetime(t) /\ b[j] = inv

\* The line the sink of operation o creates for the same record when its
\* kind is not the run-start marker.
NormalLine(o) ==
    create_line(last.L[o.sink], o.sink, [last.e EXCEPT !.name = "Note"],
                last.th, last.t, last.inv).text

\* A DebugText sink delivers a banner with separators of n '=' followed by the
\* normal line when the record is the run-start marker, and the normal line
\* alone otherwise; a PlainText or JSON sink never delivers a '='.
BannerRule(n) ==
    Fired =>
        \A k \in DeliveryIndexes :
            LET o == last.ops[k]
                lg == last.L[o.sink]
                line == LineOf(o)
                normal == NormalLine(o)
            IN IF lg.use_debug_format /\ last.e.name = "MainReportVersion"
               THEN /\ Len(line) > Len(normal)
                    /\ Suffix(line, Len(normal)) = normal
                    /\ IsBanner(SubSeq(line, 1, Len(line) - Len(normal)), n,
                                last.t, last.inv)
               ELSE /\ Count(line, "=") = 0
                    /\ ~lg.json => line = normal

\* C20 (as claimed): the separators of the banner are 40 '=' each.
C20_Banner40 == BannerRule(40)

\* C20 (amended): the separators of the banner are 30 '=' each; the banner is
\* printed by a DebugText sink iff the record is the run-start marker, and
\* never by a PlainText or JSON sink.
C20_Banner30 == BannerRule(SeparatorLen)

C20_Witness ==
    /\ Fired
    /\ last.e.name = "MainReportVersion"
    /\ \E k \in DeliveryIndexes :
          /\ last.L[last.ops[k].sink].use_debug_format
          /\ Count(LineOf(last.ops[k]), "=") = 2 * SeparatorLen

\* C21 (as claimed): the line a PlainText sink delivers is the colour tag,
\* then HH:MM:SS of the record's own timestamp, two spaces and the scrubbed
\* message, whatever the time of the fire.
C21_RecordTimestamp ==
    Fired =>
        \A k \in DeliveryIndexes :
            LET o == last.ops[k]
                lg == last.L[o.sink]
            IN (~lg.json /\ ~lg.use_debug_format) =>
                  LineOf(o) = get_color_tag(lg)
                                \o <<strftime_HMS(last.e.ts), "  ">>
                                \o ApplyScrubber(lg.scrubber, message(last.e))

\* Logger lg hands its lines to a supplied logger.
IsHandleSink(lg) == lg.python_logger # <<>> /\ lg.python_logger[1] = "ext"

\* C23: a sink on a supplied logger that accepts the record and creates its
\* line hands that line to the logger in exactly one call, at the numeric
\* severity of the record's level, and writes to no stream and no file.
C23_HandleSink ==
    Fired =>
        \A i \in 1..Len(last.L) :
            LET lg == last.L[i]
                h == lg.python_logger[2]
                line == create_line(lg, i, last.e, last.th, last.t, last.inv)
            IN (IsHandleSink(lg) /\ Accepts(lg, last.e) /\ line.ok) =>
                  /\ handles[h] = Append(last.pre.handles[h],
                                         [level |-> Severity(last.e.level),
                                          line |-> line.text])
                  /\ Cardinality({k \in SinkOps(last.ops, i) :
                                     last.ops[k].op \in DeliveryOps}) = 1
                  /\ streams = last.pre.streams
                  /\ files = last.pre.files

C23_Witness ==
    /\ Fired
    /\ IsHandleSink(last.L[1])
    /\ last.L[1].level = "debug"
    /\ last.e.level = "warn"
    /\ Len(handles["h1"]) = 1
    /\ handles["h1"][1].level = 30

\* Logger lg writes to an output stream.
IsStreamSink(lg) == lg.python_logger = <<>> /\ lg.stream # ""

\* C24 (as claimed): for a record below a stream sink's minimum level the sink
\* does nothing (no rendering, no serialization, no scrubbing, no write) and
\* the fire does not fail.
C24_BelowLevelIsInert ==
    Fired =>
        \A i \in 1..Len(last.L) :
            (/\ IsStreamSink(last.L[i])
             /\ ApplyFilter(last.L[i].filter, last.e)
             /\ Severity(last.e.level) < Severity(last.L[i].level)) =>
                /\ SinkOps(last.ops, i) = {}
                /\ ~last.raised

----------------------------------------------------------------------------
(* JSON sinks: records fired again, later and from other threads *)

JsonScrubbers == {NoScrubber, "SECRET"}

\* The second record has no payload: its message is empty.
JsonInputs ==
    { EventInput("Note", "InfoLevel", "", <<"token=", "SECRET", "\"">>, <<>>, TRUE),
      EventInput("Note", "DebugLevel", "warn", <<>>, <<>>, TRUE),
      EventInput("AdapterEvent", "DynamicLevel", "", <<"adapter">>, <<>>, FALSE) }

\* Two JSON sinks with the same scrubber, one on a supplied logger and one on
\* a stream.
InitJson ==
    \E s \in JsonScrubbers :
        /\ InitManager(add_logger_list(
               add_logger_list(<<>>,
                   LoggerConfig("aux", "NoFilter", s, "Json", "debug", FALSE,
                                "", "", "h1")),
               LoggerConfig("stdout", "NoFilter", s, "Json", "debug", TRUE,
                            "out", "", "")))
        /\ NoThreads
        /\ NoTasks
        /\ invocation_id = "uuid-1"
        /\ registry = EmptyRegistry
        /\ built = NoEvent
        /\ now = 0

\* Time passes.
tick ==
    /\ now < MaxClock
    /\ now' = now + 1
    /\ UNCHANGED <<loggers, callbacks, invocation_id, registry, streams, files,
                   handles, built, fires, last, pc, todo, job, taskvars>>

NextJson ==
    \/ \E in \in JsonInputs : construct(in)
    \/ \E th \in ThreadNames : fire(th)
    \/ tick

SpecJson == InitJson /\ [][NextJson]_vars

\* The lines delivered in call l, in order.
LinesOf(l) ==
    LET sel == SelectSeq(l.ops, LAMBDA o : o.op \in DeliveryOps)
    IN [k \in 1..Len(sel) |-> LineOf(sel[k])]

\* The keys of the "info" dict, in alphabetical order.
SortedInfoKeys ==
    <<"\"code\": ", "\"extra\": ", "\"invocation_id\": ", "\"level\": ",
      "\"msg\": ", "\"name\": ", "\"pid\": ", "\"thread\": ", "\"ts\": ">>

TopLevelKeys == <<"\"info\": ", "\"payload\": ">>

KeysOf(line, keys) == SelectSeq(line, LAMBDA tok : tok \in Range(keys))

C22_OneFire ==
    (Fired /\ ~last.raised) =>
        LET lines == LinesOf(last) IN
        /\ Len(lines) = Len(last.L)
        /\ \A k \in 1..Len(lines) :
              /\ lines[k] = lines[1]
              /\ KeysOf(lines[k], SortedInfoKeys) = SortedInfoKeys
              /\ KeysOf(lines[k], TopLevelKeys) = TopLevelKeys

C22_FiredAgain ==
    (/\ Fired /\ ~last.raised
     /\ last'.call = "fire" /\ fires' = fires + 1
     /\ last'.e = last.e)
        => (~last'.raised /\ LinesOf(last') = LinesOf(last))

\* C22: the JSON sinks of one fire deliver identical lines for the record;
\* the same record fired again, at a later time or from another thread, is
\* delivered as the same lines; in every line the keys are in sorted order
\* and every field is present, also a field that is unset.
C22_JsonDeterministic ==
    /\ []C22_OneFire
    /\ [][C22_FiredAgain]_vars

C22_Witness ==
    /\ Fired
    /\ ~last.raised
    /\ fires = MaxFires
    /\ now > last.e.ts
    /\ last.th # MainThread
    /\ last.e.payload = <<>>
    /\ Len(handles["h1"]) = MaxFires
    /\ \A k \in 1..Len(handles["h1"]) : handles["h1"][k].line = handles["h1"][1].line

----------------------------------------------------------------------------
(* Concurrent fire_event calls *)

Threads == 1..NThreads

ThreadName(th) == <<"T", ToString(th)>>

\* The r-th record thread th fires.  The first record of thread 1 is the
\* run-start marker.
ThreadRecord(th, r, inv, t) ==
    post_init(EventInput(IF th = 1 /\ r = 1 THEN "MainReportVersion" ELSE "Note",
                         "InfoLevel", "", <<"t" \o ToString(th), "r" \o ToString(r)>>,
                         <<>>, TRUE),
              inv, t, ThreadName(th))

\* The single sink the threads fire into.
ConcurrentConfigs ==
    { LoggerConfig("stdout", "NoFilter", NoScrubber, "DebugText", "debug", FALSE,
                   "out", "", ""),
      LoggerConfig("file_log", "NoFilter", NoScrubber, "PlainText", "info", FALSE,
                   "", "dbt.log", ""),
      LoggerConfig("aux", "NoFilter", NoScrubber, "Json", "info", FALSE,
                   "", "", "h1") }

NoJob == [e |-> NoEvent, i |-> 0, calls |-> <<>>]

InitConcurrent ==
    \E config \in ConcurrentConfigs :
        /\ InitManager(add_logger_list(<<>>, config))
        /\ invocation_id = "uuid-1"
        /\ registry = create_logger_registry(config, EmptyRegistry)
        /\ built = NoEvent
        /\ now = 1
        /\ pc = [th \in Threads |-> "idle"]
        /\ todo = [th \in Threads |->
                      [r \in 1..NRecords |-> ThreadRecord(th, r, "uuid-1", 1)]]
        /\ job = [th \in Threads |-> NoJob]
        /\ NoTasks

\* fire_event's loop from logger i on, up to the next destination call: the
\* loggers whose filter rejects e, or whose write_line makes no call, are
\* passed; the result is the logger reached and the calls its write_line is
\* about to make, i = 0 when the loop is over, or the exception raised.
RECURSIVE scan_loggers(_, _, _)
scan_loggers(i, e, th) ==
    IF i > Len(loggers) THEN [i |-> 0, raised |-> FALSE, calls |-> <<>>]
    ELSE IF ~ApplyFilter(loggers[i].filter, e) THEN scan_loggers(i + 1, e, th)
    ELSE LET line == create_line(loggers[i], i, e, ThreadName(th), now, invocation_id) IN
         IF ~line.ok THEN [i |-> i, raised |-> TRUE, calls |-> <<>>]
         ELSE LET calls == write_line_calls(loggers[i], e, line.text) IN
              IF calls = <<>> THEN scan_loggers(i + 1, e, th)
              ELSE [i |-> i, raised |-> FALSE, calls |-> calls]

\* Thread th is at the logger that scan reached, or has left fire_event.
proceed(th, e, scan) ==
    IF scan.i = 0 \/ scan.raised
    THEN /\ pc' = [pc EXCEPT ![th] = "idle"]
         /\ job' = [job EXCEPT ![th] = NoJob]
    ELSE /\ pc' = [pc EXCEPT ![th] = "call"]
         /\ job' = [job EXCEPT ![th] = [e |-> e, i |-> scan.i, calls |-> scan.calls]]

\* Thread th calls fire_event with its next record and runs up to the first
\* destination call.
thread_fire(th) ==
    /\ pc[th] = "idle"
    /\ todo[th] # <<>>
    /\ todo' = [todo EXCEPT ![th] = Tail(@)]
    /\ proceed(th, Head(todo[th]), scan_loggers(1, Head(todo[th]), th))
    /\ UNCHANGED <<loggers, callbacks, invocation_id, registry, streams, files,
                   handles, built, now, fires, last, taskvars>>

\* Thread th makes its pending destination call, one stream.write or one
\* python_logger.log, and runs up to its next one.
thread_call(th) ==
    /\ pc[th] = "call"
    /\ LET D == apply_call(Head(job[th].calls), job[th].i, registry,
                           Dest(streams, files, handles, <<>>, FALSE))
           rest == Tail(job[th].calls)
       IN /\ streams' = D.streams
          /\ files' = D.files
          /\ handles' = D.handles
          /\ IF D.raised
             THEN proceed(th, job[th].e, [i |-> 0, raised |-> TRUE, calls |-> <<>>])
             ELSE IF rest # <<>>
             THEN /\ job' = [job EXCEPT ![th].calls = rest]
                  /\ pc' = pc
             ELSE proceed(th, job[th].e, scan_loggers(job[th].i + 1, job[th].e, th))
    /\ UNCHANGED <<loggers, callbacks, invocation_id, registry, built, now,
                   fires, last, todo, taskvars>>

NextConcurrent == \E th \in Threads : thread_fire(th) \/ thread_call(th)

SpecConcurrent == InitConcurrent /\ [][NextConcurrent]_vars

AllDone == \A th \in Threads : pc[th] = "idle" /\ todo[th] = <<>>

\* The formatted text of the r-th record of thread th in the sink.
RecordText(th, r) ==
    create_line(loggers[1], 1, ThreadRecord(th, r, invocation_id, now),
                ThreadName(th), now, invocation_id).text

RecordTexts == {RecordText(th, r) : th \in Threads, r \in 1..NRecords}

RecordBlocks == {text \o <<"\n">> : text \in RecordTexts}

\* Reads content as a sequence of whole blocks, each used at most once:
\* ok says whether that succeeds, rest holds the blocks not met.
RECURSIVE ParseBlocks(_, _)
ParseBlocks(content, blocks) ==
    IF content = <<>> THEN [ok |-> TRUE, rest |-> blocks]
    ELSE LET heads == {b \in blocks : Len(b) <= Len(content)
                                      /\ SubSeq(content, 1, Len(b)) = b}
         IN IF heads = {} THEN [ok |-> FALSE, rest |-> blocks]
            ELSE LET b == CHOOSE h \in heads : TRUE IN
                 ParseBlocks(SubSeq(content, Len(b) + 1, Len(content)), blocks \ {b})

HandedLines(h) == {handles[h][k].line : k \in 1..Len(handles[h])}

\* The text destinations in use (a stream or a file), and the handles.
TextDestinations ==
    {streams[s] : s \in StreamIds} \cup {files[f] : f \in FileNames}

SinkText ==
    IF loggers[1].stream # "" THEN streams[loggers[1].stream]
    ELSE files[registry[loggers[1].name].file]

SinkIsHandle == loggers[1].python_logger # <<>> /\ loggers[1].python_logger[1] = "ext"

\* C3 (as claimed): when all threads are done the destination holds exactly
\* NThreads * NRecords lines, each one record's formatted text and its newline.
C3_ExactlyOneLinePerRecord ==
    (AllDone /\ ~SinkIsHandle) =>
        /\ Count(SinkText, "\n") = NThreads * NRecords
        /\ ParseBlocks(SinkText, RecordBlocks).ok

\* C3 (amended): at every moment each destination is a sequence of whole
\* blocks, a block being one record's full formatted text followed by "\n",
\* no record twice; when all threads are done every record's block is there,
\* NThreads * NRecords blocks in all.  (A block is one line unless the
\* formatted text itself holds newlines, as the DebugText banner does.)
C3_WholeBlocksOnly ==
    /\ \A text \in TextDestinations : ParseBlocks(text, RecordBlocks).ok
    /\ \A h \in HandleIds :
          /\ HandedLines(h) \subseteq RecordTexts
          /\ Cardinality(HandedLines(h)) = Len(handles[h])
    /\ AllDone =>
          IF SinkIsHandle
          THEN Len(handles[loggers[1].python_logger[2]]) = NThreads * NRecords
          ELSE ParseBlocks(SinkText, RecordBlocks).rest = {}

C3_Witness ==
    /\ AllDone
    /\ loggers[1].use_debug_format
    /\ Len(streams["out"]) > 0
    /\ Head(streams["out"]) # "\n"
    /\ Count(streams["out"], "\n") > NThreads * NRecords

----------------------------------------------------------------------------
(* task/clean.py *)

\* A path is a list of components and a component is a list of characters:
\* commonprefix compares characters, abspath and rmtree work on components.
\* abs says whether the path starts at the root.
Path(abs, comps) == [abs |-> abs, comps |-> comps]

Dot == <<".">>
DotDot == <<".", ".">>

\* The project directory /a/p, which move_to_nearest_project_dir makes the
\* working directory.
Cwd == Path(TRUE, << <<"a">>, <<"p">> >>)

\* os.path.normpath on the components: "." is dropped, ".." takes the last
\* component away (the root has no parent).
RECURSIVE normpath(_, _)
normpath(stack, comps) ==
    IF comps = <<>> THEN stack
    ELSE IF Head(comps) = Dot THEN normpath(stack, Tail(comps))
    ELSE IF Head(comps) = DotDot
    THEN normpath(IF stack = <<>> THEN <<>> ELSE SubSeq(stack, 1, Len(stack) - 1),
                  Tail(comps))
    ELSE normpath(Append(stack, Head(comps)), Tail(comps))

\* os.path.abspath(path) = normpath(join(os.getcwd(), path))
abspath(path) ==
    Path(TRUE, normpath(IF path.abs THEN <<>> ELSE Cwd.comps, path.comps))

\* The characters of an absolute path.
RECURSIVE path_str(_)
path_str(comps) ==
    IF comps = <<>> THEN <<>>
    ELSE <<"/">> \o Head(comps) \o path_str(Tail(comps))

\* os.path.commonprefix([a, b]): the longest common prefix, by characters.
commonprefix(a, b) ==
    LET m == IF Len(a) < Len(b) THEN Len(a) ELSE Len(b)
        agree == {k \in 0..m : \A j \in 1..k : a[j] = b[j]}
        n == CHOOSE k \in agree : \A k2 \in agree : k2 <= k
    IN SubSeq(a, 1, n)

abs_str(path) == IF path.comps = <<>> THEN <<"/">> ELSE path_str(path.comps)

\* is_project_path(path): TRUE when the project directory is not a character
\* prefix of the path.
is_project_path(path) ==
    LET proj_path == abs_str(abspath(Path(FALSE, <<Dot>>)))
    IN ~(commonprefix(proj_path, abs_str(abspath(path))) = proj_path)

is_protected_path(path, model_paths, test_paths) ==
    LET abs_path == abspath(path)
        protected_paths == model_paths \o test_paths \o <<Path(FALSE, <<Dot>>)>>
        protected_abs_paths == {abspath(protected_paths[k]) :
                                   k \in 1..Len(protected_paths)}
    IN abs_path \in protected_abs_paths \/ is_project_path(abs_path)

\* a is b or lies below b (by components).
IsUnder(a, b) == Len(a) >= Len(b) /\ SubSeq(a, 1, Len(b)) = b

\* shutil.rmtree(path, True): the directory and everything below it go; a
\* path that does not exist is ignored.  disk is the set of existing absolute
\* paths.
rmtree(disk, path) == {d \in disk : ~IsUnder(d, abspath(path).comps)}

\* One call made by CleanTask.run: a fire_event of an event kind with its
\* path, a shutil.rmtree, or a deprecations.warn.
Ev(ev, path) == [ev |-> ev, path |-> path]

\* A loop body that confirms the removal before attempting it.
clean_body_confirm_first(path, model_paths, test_paths) ==
    IF ~is_protected_path(path, model_paths, test_paths)
    THEN <<Ev("CheckCleanPath", path), Ev("ConfirmCleanPath", path),
           Ev("rmtree", path)>>
    ELSE <<Ev("CheckCleanPath", path), Ev("ProtectedCleanPath", path)>>

\* The body of the loop of CleanTask.run for one clean target: its calls.
clean_body(path, model_paths, test_paths) ==
    IF ~is_protected_path(path, model_paths, test_paths)
    THEN <<Ev("CheckCleanPath", path), Ev("rmtree", path),
           Ev("ConfirmCleanPath", path)>>
    ELSE <<Ev("CheckCleanPath", path), Ev("ProtectedCleanPath", path)>>

\* The disk after the calls cs.
RECURSIVE disk_after(_, _)
disk_after(disk, cs) ==
    IF cs = <<>> THEN disk
    ELSE disk_after(IF Head(cs).ev = "rmtree" THEN rmtree(disk, Head(cs).path)
                    ELSE disk,
                    Tail(cs))

\* Lines 30-34: the deprecation warning for "dbt_modules".
deprecation_check(targets, packages_install_path) ==
    IF Path(FALSE, << <<"d", "m">> >>) \in Range(targets)
       /\ packages_install_path \notin Range(targets)
    THEN <<Ev("deprecations.warn", Path(FALSE, <<>>))>>
    ELSE <<>>

----------------------------------------------------------------------------
(* CleanTask.run as a state machine *)

\* The project's configuration: model-paths and test-paths.
ModelPaths == <<Path(FALSE, << <<"m">> >>)>>
TestPaths == <<Path(FALSE, << <<"s">> >>)>>

\* The clean targets a project may list: target, the model and test paths, a
\* directory below the model path, the project directory, the sibling
\* directory /a/p2/x, /a/o outside the project, dbt_modules, dbt_packages
\* and target by its absolute path.
CleanPaths ==
    { Path(FALSE, << <<"t">> >>),
      Path(FALSE, << <<"m">> >>),
      Path(FALSE, << <<"s">> >>),
      Path(FALSE, << <<"m">>, <<"x">> >>),
      Path(FALSE, <<Dot>>),
      Path(FALSE, <<DotDot, <<"p", "2">>, <<"x">> >>),
      Path(FALSE, <<DotDot, <<"o">> >>),
      Path(FALSE, << <<"d", "m">> >>),
      Path(FALSE, << <<"d", "p">> >>),
      Path(TRUE, << <<"a">>, <<"p">>, <<"t">> >>) }

PackagesInstallPaths == {Path(FALSE, << <<"d", "m">> >>), Path(FALSE, << <<"d", "p">> >>)}

\* What exists on disk when the task starts.
InitialDisk ==
    {abspath(path).comps : path \in CleanPaths}
    \cup { << <<"a">> >>, << <<"a">>, <<"p">> >>, << <<"a">>, <<"p", "2">> >>,
           << <<"a">>, <<"p">>, <<"t">>, <<"f">> >> }

TargetLists ==
    UNION {[1..n -> CleanPaths] : n \in 0..MaxTargets}

IdleManager ==
    /\ InitManager(<<>>)
    /\ NoThreads
    /\ invocation_id = "uuid-1"
    /\ registry = EmptyRegistry
    /\ built = NoEvent
    /\ now = 1

InitClean ==
    /\ IdleManager
    /\ clean = <<>>
    /\ exc = <<>>
    /\ added = <<>>
    /\ frames = <<>>

\* CleanTask.run up to its loop.
run_start(targets, packages_install_path) ==
    /\ clean = <<>>
    /\ clean' = [pc |-> "loop", i |-> 1, targets |-> targets,
                 disk |-> InitialDisk,
                 events |-> deprecation_check(targets, packages_install_path)]
    /\ UNCHANGED <<mgrvars, exc, added, frames>>

\* One turn of the loop.
run_target ==
    /\ clean # <<>>
    /\ clean.pc = "loop"
    /\ clean.i <= Len(clean.targets)
    /\ LET cs == clean_body(clean.targets[clean.i], ModelPaths, TestPaths)
       IN clean' = [clean EXCEPT !.i = @ + 1,
                                 !.events = @ \o cs,
                                 !.disk = disk_after(@, cs)]
    /\ UNCHANGED <<mgrvars, exc, added, frames>>

\* The end of the loop: fire_event(FinishedCleanPaths()).
run_finish ==
    /\ clean # <<>>
    /\ clean.pc = "loop"
    /\ clean.i > Len(clean.targets)
    /\ clean' = [clean EXCEPT !.pc = "done",
                              !.events = Append(@, Ev("FinishedCleanPaths",
                                                     Path(FALSE, <<>>)))]
    /\ UNCHANGED <<mgrvars, exc, added, frames>>

NextClean ==
    \/ \E targets \in TargetLists, pip \in PackagesInstallPaths :
          run_start(targets, pip)
    \/ run_target
    \/ run_finish

SpecClean == InitClean /\ [][NextClean]_vars

\* The calls of the run for its targets, without the deprecation warning and
\* the closing event.
TargetCalls ==
    SelectSeq(clean.events,
              LAMBDA c : c.ev \notin {"deprecations.warn", "FinishedCleanPaths"})

\* cs is, target by target and in the order of targets, CheckCleanPath then
\* either the removal and ConfirmCleanPath, or ProtectedCleanPath alone.
RECURSIVE FollowsProtocol(_, _)
FollowsProtocol(cs, targets) ==
    IF targets = <<>> THEN cs = <<>>
    ELSE LET path == Head(targets)
             removed == <<Ev("CheckCleanPath", path), Ev("rmtree", path),
                          Ev("ConfirmCleanPath", path)>>
             kept == <<Ev("CheckCleanPath", path), Ev("ProtectedCleanPath", path)>>
         IN \/ /\ Len(cs) >= Len(removed)
               /\ SubSeq(cs, 1, Len(removed)) = removed
               /\ FollowsProtocol(SubSeq(cs, Len(removed) + 1, Len(cs)), Tail(targets))
            \/ /\ Len(cs) >= Len(kept)
               /\ SubSeq(cs, 1, Len(kept)) = kept
               /\ FollowsProtocol(SubSeq(cs, Len(kept) + 1, Len(cs)), Tail(targets))

Finished(c) == c.ev = "FinishedCleanPaths"

\* C25: at every point of a run the calls made so far are the protocol for
\* the targets handled so far, in target order; FinishedCleanPaths is fired
\* once, as the last call, when every target has been handled, and not before.
C25_CleanProtocol ==
    clean # <<>> =>
        /\ FollowsProtocol(TargetCalls, SubSeq(clean.targets, 1, clean.i - 1))
        /\ clean.pc = "loop" => SelectSeq(clean.events, Finished) = <<>>
        /\ clean.pc = "done" =>
              /\ clean.i = Len(clean.targets) + 1
              /\ Len(SelectSeq(clean.events, Finished)) = 1
              /\ Finished(clean.events[Len(clean.events)])

C25_Witness ==
    /\ clean # <<>>
    /\ clean.pc = "done"
    /\ Len(clean.targets) = MaxTargets
    /\ \E k1, k2 \in 1..Len(clean.events) :
          /\ clean.events[k1].ev = "ConfirmCleanPath"
          /\ clean.events[k2].ev = "ProtectedCleanPath"

\* The paths the specification calls protected: a model path, a test path,
\* the project directory, and every path outside the project directory tree.
SpecProtected(path) ==
    LET a == abspath(path) IN
    \/ a \in {abspath(ModelPaths[1]), abspath(TestPaths[1]), abspath(Path(FALSE, <<Dot>>))}
    \/ ~IsUnder(a.comps, Cwd.comps)

\* C26 (as claimed): a protected clean target that has been handled is still
\* on disk, no removal was attempted for it, and it was reported with
\* ProtectedCleanPath.
C26_ProtectedNeverRemoved ==
    clean # <<>> =>
        \A k \in 1..(clean.i - 1) :
            LET path == clean.targets[k] IN
            SpecProtected(path) =>
                /\ abspath(path).comps \in clean.disk
                /\ Ev("rmtree", path) \notin Range(clean.events)
                /\ Ev("ProtectedCleanPath", path) \in Range(clean.events)

----------------------------------------------------------------------------
(* exceptions.py: RuntimeException and its node stack *)

None == "None"

\* Node objects, compared by identity: a parsed node, a node that has no name
\* attribute, and a FileBlock (it has a contents attribute).
Nodes == {"model_a", "unnamed", "file_block"}

\* RuntimeException.node_to_string
node_to_string(node) ==
    CASE node = None -> "<Unknown>"
      [] node = "unnamed" -> "model (models/unnamed.sql)"
      [] node = "file_block" -> "models/block.sql"
      [] OTHER -> "model " \o node \o " (models/" \o node \o ".sql)"

\* RuntimeException.__init__(msg, node)
exception_init(node) == [node |-> node, stack |-> <<>>]

\* An add_node without the identity test: the current node is pushed again.
add_node_no_identity(self, node) ==
    IF node # None
    THEN [node |-> node,
          stack |-> IF self.node # None THEN Append(self.stack, self.node)
                    ELSE self.stack]
    ELSE self

\* RuntimeException.add_node(node)
add_node(self, node) ==
    IF node # None /\ node # self.node
    THEN [node |-> node,
          stack |-> IF self.node # None THEN Append(self.stack, self.node)
                    ELSE self.stack]
    ELSE self

\* RuntimeException.process_stack(): the lines.
process_stack(self) ==
    LET stack == Append(self.stack, self.node) IN
    IF Len(stack) > 1
    THEN <<"">> \o [k \in 1..Len(stack) |->
                      "> " \o (IF k = 1 THEN "in" ELSE "called by") \o " "
                           \o node_to_string(stack[k])]
    ELSE <<>>

\* raise RuntimeException(msg, node)
raise_exception(node) ==
    /\ exc = <<>>
    /\ exc' = exception_init(node)
    /\ added' = <<node>>
    /\ UNCHANGED <<mgrvars, clean, frames>>

\* exc.add_node(node) by a caller that caught the exception.
call_add_node(node) ==
    /\ exc # <<>>
    /\ Len(added) <= MaxAdds
    /\ exc' = add_node(exc, node)
    /\ added' = Append(added, node)
    /\ UNCHANGED <<mgrvars, clean, frames>>

\* The exception passes through a function wrapped by wrapper(model): inner
\* catches it, calls exc.add_node(model) and raises it again.
wrapper_inner(model) ==
    /\ exc # <<>>
    /\ Len(added) <= MaxAdds
    /\ exc' = add_node(exc, model)
    /\ added' = Append(added, model)
    /\ UNCHANGED <<mgrvars, clean, frames>>

NextException ==
    \/ \E node \in Nodes \cup {None} : raise_exception(node)
    \/ \E node \in Nodes \cup {None} : call_add_node(node)
    \/ \E model \in Nodes : wrapper_inner(model)

SpecException == InitClean /\ [][NextException]_vars

\* s without the entries equal to their predecessor.
Dedup(s) ==
    SelectSeq([k \in 1..Len(s) |-> IF k > 1 /\ s[k] = s[k - 1] THEN None ELSE s[k]],
              LAMBDA x : x # None)

\* The nodes the exception was given that were not None, and the successive
\* current nodes they make.
GivenNodes == SelectSeq(added, LAMBDA x : x # None)
CurrentNodes == Dedup(GivenNodes)

\* The node and stack as the specification describes them.
NodeStackRule ==
    /\ exc.node = (IF GivenNodes = <<>> THEN None ELSE GivenNodes[Len(GivenNodes)])
    /\ exc.stack = (IF CurrentNodes = <<>> THEN <<>>
                    ELSE SubSeq(CurrentNodes, 1, Len(CurrentNodes) - 1))
    /\ None \notin Range(exc.stack)
    /\ add_node(exc, None) = exc
    /\ add_node(exc, exc.node) = exc

\* One line per entry of stack + [node]: "in" for the first, "called by" for
\* the others.
EntryLines ==
    LET full == Append(exc.stack, exc.node) IN
    [k \in 1..Len(full) |->
        "> " \o (IF k = 1 THEN "in" ELSE "called by") \o " " \o node_to_string(full[k])]

\* C27 (as claimed): with a non-empty stack process_stack yields exactly one
\* line per entry of stack + [node].
C27_NodeStack ==
    exc # <<>> =>
        /\ NodeStackRule
        /\ process_stack(exc) = (IF exc.stack = <<>> THEN <<>> ELSE EntryLines)

\* C27 (amended): with a non-empty stack process_stack yields an empty line
\* followed by one line per entry of stack + [node].
C27_NodeStackBlankLine ==
    exc # <<>> =>
        /\ NodeStackRule
        /\ process_stack(exc) = (IF exc.stack = <<>> THEN <<>>
                                 ELSE <<"">> \o EntryLines)

C27_Witness ==
    /\ exc # <<>>
    /\ Len(exc.stack) = 2
    /\ exc.stack[1] = exc.node
    /\ None \in Range(added)
    /\ Len(process_stack(exc)) = 4

----------------------------------------------------------------------------
(* exceptions.py: the module-level compatibility functions *)

\* The names imported from dbt.jinja_exceptions (lines 8-26) that the module
\* defines again at its end (lines 1237-1304).
PlaceholderNames ==
    {"warn", "missing_config", "missing_materialization", "missing_relation",
     "raise_ambiguous_alias", "raise_ambiguous_catalog_match",
     "raise_cache_inconsistent", "raise_dataclass_not_dict",
     "raise_database_error", "raise_dep_not_found", "raise_dependency_error",
     "raise_duplicate_patch_name", "raise_duplicate_resource_name",
     "raise_invalid_property_yml_version", "raise_not_implemented",
     "relation_wrong_type"}

\* The statements that bind a name in the module's namespace, in the order
\* the module executes them: the import, for warn the def of line 812, and
\* the def at the end of the module.
module_bindings(name) ==
    <<"jinja_exceptions">>
    \o (IF name = "warn" THEN <<"def_812">> ELSE <<>>)
    \o <<"placeholder">>

\* What a global name refers to when a call is made: the last binding.
global_lookup(name) == module_bindings(name)[Len(module_bindings(name))]

\* A caller calls dbt.exceptions.<name>(...).
call_export(name) ==
    /\ frames = <<>>
    /\ frames' = [name |-> name, stack |-> <<global_lookup(name)>>,
                  delegated |-> 0, outcome |-> "running"]
    /\ UNCHANGED <<mgrvars, clean, exc, added>>

\* The function of the top frame runs.  A placeholder calls the global of its
\* own name with its arguments: a new frame, or RecursionError when the stack
\* is at the interpreter's limit.  The jinja_exceptions implementation and the
\* def of line 812 do their work and return (or raise) to the caller.
run_frame ==
    /\ frames # <<>>
    /\ frames.outcome = "running"
    /\ frames.stack # <<>>
    /\ LET top == frames.stack[Len(frames.stack)] IN
       IF top = "placeholder"
       THEN IF Len(frames.stack) >= RecursionLimit
            THEN frames' = [frames EXCEPT !.outcome = "RecursionError"]
            ELSE frames' = [frames EXCEPT
                               !.stack = Append(@, global_lookup(frames.name)),
                               !.delegated = @ + (IF global_lookup(frames.name)
                                                       = "jinja_exceptions"
                                                  THEN 1 ELSE 0)]
       ELSE frames' = [frames EXCEPT
                          !.stack = SubSeq(@, 1, Len(@) - 1),
                          !.outcome = IF Len(frames.stack) = 1 THEN "returned"
                                      ELSE "running"]
    /\ UNCHANGED <<mgrvars, clean, exc, added>>

\* A RecursionError propagates: no placeholder catches it, frame after frame
\* is left.
unwind ==
    /\ frames # <<>>
    /\ frames.outcome = "RecursionError"
    /\ frames.stack # <<>>
    /\ frames' = [frames EXCEPT !.stack = SubSeq(@, 1, Len(@) - 1)]
    /\ UNCHANGED <<mgrvars, clean, exc, added>>

NextExports ==
    \/ \E name \in PlaceholderNames : call_export(name)
    \/ run_frame
    \/ unwind

SpecExports == InitClean /\ [][NextExports]_vars

PlaceholderFrames ==
    {k \in 1..Len(frames.stack) : frames.stack[k] = "placeholder"}

\* C28 (as claimed): a call of a compatibility function never has the
\* placeholder on the stack twice, ends without RecursionError, and when it
\* has ended the jinja_exceptions implementation was called exactly once.
C28_DelegatesOnce ==
    frames # <<>> =>
        /\ Cardinality(PlaceholderFrames) <= 1
        /\ frames.outcome # "RecursionError"
        /\ (frames.outcome # "running" /\ frames.stack = <<>>) =>
              frames.delegated = 1

====
